---- MODULE Spec2Model ----
(***************************************************************************)
(* Source 2 Utilities: the ambient-occlusion bake.                         *)
(*                                                                         *)
(* Numbers.  Python floats are modelled by exact fractions.  A uniform     *)
(* draw random.random() is u/RngMod for the generator's new state u.  A    *)
(* sample direction is kept as the pair (u1, u2) it is computed from       *)
(* (x = sqrt(u1) cos(2 pi u2), y = sqrt(u1) sin(2 pi u2)) together with    *)
(* its dot product with the up axis, z = sqrt(max(0, 1 - u1)), which is    *)
(* kept as RngMod * z^2 = max(0, RngMod - u1): z >= 0 always, so ordering  *)
(* by z and ordering by z^2 agree.  An occlusion value is a fraction       *)
(* <<numerator, denominator>>.                                             *)
(***************************************************************************)
EXTENDS Integers, Sequences, FiniteSets, TLC

\* ---- bounds of the model ----
\* modulus of the modelled generator: draws are k/RngMod, k in 0..RngMod-1
RngMod == 8
\* largest ray count the sampler harness asks for
MaxCount == 3
\* number of calls the sampler harness makes
MaxCalls == 4
\* largest s2_ao_ray_count a bake is configured with
MaxRays == 2
\* s2_ao_global_local_mix takes the values k/BlendDen, k in 0..BlendDen
BlendDen == 2
\* number of estimator calls the estimator harness makes
MaxEst == 2
\* largest number of mesh objects selected when the bake operator runs
MaxSel == 2

\* ---- program constants ----
\* random.seed(42)
Seed == 42

VARIABLES
    rng,          \* state of the module-global generator of `random`
    hemi,         \* the last list ray_randomizer returned
    hemiCount,    \* the count it was called with (0: not called yet)
    hemiLog,      \* history: the sampler calls made, [count, before, out]
    calls,        \* history: number of harness calls made
    scn,          \* the static scene: which rays the ray queries report hit
    planes,       \* number of SXAO_TempGroundPlane objects in bpy.data.objects
    cfg,          \* the scene's s2_ao_* properties, read once by execute
    target,       \* the object the estimator harness estimates
    est,          \* what the last estimator call did: its outcome record
    prevEst,      \* history: the outcome record of the call before it
    sel,          \* execute: selected_mesh_objects (object names, in order)
    pc,           \* execute: where the operator is
    idx,          \* execute: 1-based position of the loop in sel
    attrs,        \* per object, what foreach_set stored in the target attribute
    processed_count,
    failed_objects,
    reports,      \* what self.report was called with, in order
    result,       \* what execute returned
    vert_occ,     \* occlusion_list: the dict of per-vertex values being filled
    visited,      \* occlusion_list: the vertices whose loop body has run, in order
    objects,      \* bpy.context.scene.objects: name, type, selection, s2_* keys
    naming,       \* the scene's naming properties: s2_prefix, s2_name, ...
    assigned,     \* history: the renames of the last apply_naming_convention
    view,         \* context.view_layer.objects: select_get() per object, .active
    saved,        \* execute: original_selection and original_active
    in_progress,  \* naming.py: the global _naming_update_in_progress
    frames,       \* the invocations of update_names_on_selection in progress
    updates       \* history: what every finished invocation did

samplerVars == <<hemi, hemiCount, hemiLog>>
estVars == <<scn, planes, cfg, target, est, prevEst>>
bakeVars == <<sel, pc, idx, attrs, processed_count, failed_objects, reports,
              result>>
loopVars == <<vert_occ, visited>>
namingVars == <<objects, naming, assigned>>
viewVars == <<view, saved>>
handlerVars == <<in_progress, frames, updates>>
vars == <<rng, hemi, hemiCount, hemiLog, calls, scn, planes, cfg, target,
          est, prevEst, sel, pc, idx, attrs, processed_count, failed_objects,
          reports, result, vert_occ, visited, objects, naming, assigned,
          view, saved, in_progress, frames, updates>>

\* ---------------------------------------------------------------------
\* The generator: random.seed / random.random
\* ---------------------------------------------------------------------
\* random.seed(a): the state is a function of the seed argument alone
RandomSeed(a) == a % RngMod

\* random.random(): advances the state; the draw is the new state / RngMod
RandomNext(s) == (5 * s + 3) % RngMod

\* ---------------------------------------------------------------------
\* SXAO_generate.ray_randomizer
\* ---------------------------------------------------------------------
\* one loop iteration: two draws u1, u2, then the ray and its dot with up
HemiSample(s) ==
    LET u1 == RandomNext(s)
        u2 == RandomNext(u1)
        zz == IF RngMod - u1 > 0 THEN RngMod - u1 ELSE 0
    IN  [u1 |-> u1, u2 |-> u2, dot |-> zz]

\* for i in range(count): hemisphere[i] = (ray, dot_product)
RECURSIVE HemiLoop(_, _, _)
HemiLoop(n, s, acc) ==
    IF n = 0 THEN [out |-> acc, rng |-> s]
    ELSE LET smp == HemiSample(s)
         IN  HemiLoop(n - 1, smp.u2, Append(acc, smp))

\* insert x into a list sorted descending by dot, after every element whose
\* dot is >= x.dot (sorted() is stable, also with reverse=True)
RECURSIVE InsertDesc(_, _)
InsertDesc(x, s) ==
    IF s = <<>> THEN <<x>>
    ELSE IF Head(s).dot >= x.dot THEN <<Head(s)>> \o InsertDesc(x, Tail(s))
    ELSE <<x>> \o s

RECURSIVE InsertAsc(_, _)
InsertAsc(x, s) ==
    IF s = <<>> THEN <<x>>
    ELSE IF Head(s).dot <= x.dot THEN <<Head(s)>> \o InsertAsc(x, Tail(s))
    ELSE <<x>> \o s

\* sorted(hemisphere, key=lambda x: x[1], reverse=True)
RECURSIVE SortAscByDot(_)
SortAscByDot(s) ==
    IF s = <<>> THEN <<>>
    ELSE InsertAsc(s[Len(s)], SortAscByDot(SubSeq(s, 1, Len(s) - 1)))

RECURSIVE SortDescByDot(_)
SortDescByDot(s) ==
    IF s = <<>> THEN <<>>
    ELSE InsertDesc(s[Len(s)], SortDescByDot(SubSeq(s, 1, Len(s) - 1)))

\* the generator state the sampling loop starts from: random.seed(42)
SamplerStartUnseeded(s) == s
SamplerStart(s) == RandomSeed(Seed)

\* ray_randomizer(count) called when the global generator is in state s:
\* the returned list and the state the global generator is left in
ray_randomizer(count, s) ==
    LET g == HemiLoop(count, SamplerStart(s), <<>>)
    IN  [out |-> SortDescByDot(g.out), rng |-> g.rng]

\* the three draws that jitter one ray of calculate_geonode_ao
JitterDraws(s) == RandomNext(RandomNext(RandomNext(s)))

\* ---------------------------------------------------------------------
\* Fractions
\* ---------------------------------------------------------------------
RECURSIVE GCD(_, _)
GCD(a, b) == IF b = 0 THEN a ELSE GCD(b, a % b)

Abs(n) == IF n < 0 THEN 0 - n ELSE n

\* the float n/d (d > 0), in lowest terms so that equal floats are equal
Frac(n, d) ==
    LET g == GCD(Abs(n), d) IN <<(IF n < 0 THEN 0 - (Abs(n) \div g) ELSE n \div g), d \div g>>

Zero == Frac(0, 1)
One == Frac(1, 1)

\* max(0.0, min(x, 1.0))
Unclamped(x) == x
Clamp01(x) ==
    IF x[1] < 0 THEN Zero ELSE IF x[1] > x[2] THEN One ELSE x

InUnit(x) == x[1] >= 0 /\ x[1] <= x[2] /\ x[2] > 0

\* ---------------------------------------------------------------------
\* The host's objects: mesh data, the attribute call and the ray queries
\* ---------------------------------------------------------------------
\* A face is a list of <<vertex index, loop index>> pairs (poly.vertices
\* zipped with poly.loop_indices; face.loops of the bmesh).  min_dot[v+1]
\* is what vertex_data_dict stores for vertex v, in the unit of a sample's
\* dot (RngMod * cos^2, <= 0 for a cosine <= 0).  posz[v+1] is the world z
\* of vertex v in units of 0.05.  probe is the answer to the ray cast along
\* the normal: hit, normal.dot(local_no) > 0, and the hit distance in
\* thousandths.  raises: the object's ray_cast raises.  attr: whether
\* ensure_attribute_exists returns an attribute.
Tri == [name |-> "tri", nverts |-> 3, nloops |-> 3,
        faces |-> << << <<0, 0>>, <<1, 1>>, <<2, 2>> >> >>,
        min_dot |-> <<0, 0, 0>>, posz |-> <<0, 1, 3>>,
        probe |-> [hit |-> FALSE, facing |-> FALSE, dist |-> 0],
        raises |-> FALSE, attr |-> TRUE]

Bowl == [name |-> "bowl", nverts |-> 4, nloops |-> 6,
         faces |-> << << <<0, 0>>, <<1, 1>>, <<2, 2>> >>,
                      << <<0, 3>>, <<2, 4>>, <<3, 5>> >> >>,
         min_dot |-> <<4, 0 - 2, 2, 0>>, posz |-> <<0 - 4, 0, 2, 1>>,
         probe |-> [hit |-> TRUE, facing |-> TRUE, dist |-> 20],
         raises |-> FALSE, attr |-> TRUE]

Empty == [name |-> "empty", nverts |-> 0, nloops |-> 0,
          faces |-> <<>>, min_dot |-> <<>>, posz |-> <<>>,
          probe |-> [hit |-> FALSE, facing |-> FALSE, dist |-> 0],
          raises |-> FALSE, attr |-> TRUE]

\* a face whose last loop index is not below the loop count
Bad == [name |-> "bad", nverts |-> 3, nloops |-> 3,
        faces |-> << << <<0, 0>>, <<1, 1>>, <<2, 3>> >> >>,
        min_dot |-> <<0, 0, 0>>, posz |-> <<4, 4, 4>>,
        probe |-> [hit |-> FALSE, facing |-> FALSE, dist |-> 0],
        raises |-> FALSE, attr |-> TRUE]

NoAttr == [name |-> "noattr", nverts |-> 3, nloops |-> 3,
           faces |-> << << <<0, 0>>, <<1, 1>>, <<2, 2>> >> >>,
           min_dot |-> <<0, 0, 0>>, posz |-> <<4, 4, 4>>,
           probe |-> [hit |-> FALSE, facing |-> FALSE, dist |-> 0],
           raises |-> FALSE, attr |-> FALSE]

Throws == [name |-> "throws", nverts |-> 3, nloops |-> 3,
           faces |-> << << <<0, 0>>, <<1, 1>>, <<2, 2>> >> >>,
           min_dot |-> <<0, 0, 0>>, posz |-> <<4, 4, 4>>,
           probe |-> [hit |-> FALSE, facing |-> FALSE, dist |-> 0],
           raises |-> TRUE, attr |-> TRUE]

Meshes == {Tri, Bowl, Empty, Bad, NoAttr, Throws}
Names == {m.name : m \in Meshes}
Mesh(o) == CHOOSE m \in Meshes : m.name = o

\* len(obj.data.loops)
LoopCount(m) == m.nloops

\* the <<vertex, loop>> pairs of all faces, in face order
RECURSIVE Corners(_)
Corners(faces) ==
    IF faces = <<>> THEN <<>> ELSE Head(faces) \o Corners(Tail(faces))

\* A ray is answered by the sector it falls in.  A sample ray goes through
\* the vertex's rotation_difference, so its sector depends on the vertex.
Sectors == {0, 1}
SectorOf(v, k) == (v + k) % Cardinality(Sectors)

\* the rays a temporary ground plane blocks once it is in the scene
GroundSectors == {1}

Scenes == [local : SUBSET Sectors, world : SUBSET Sectors]

\* obj_eval.ray_cast(local_pos, from_up @ r_dir, distance=dist)[0]
LocalHit(sc, v, smp, bias) == SectorOf(v, smp.u2) \in sc.local

\* bpy.context.scene.ray_cast(edg, world_pos, from_up @ r_dir, distance=dist)[0]
SceneHit(sc, pl, v, smp, bias) ==
    \/ SectorOf(v, smp.u2) \in sc.world
    \/ pl > 0 /\ SectorOf(v, smp.u2) \in GroundSectors

\* obj.ray_cast(pos + normal * 0.001, ray_dir, distance=distance) for the
\* ray jittered by the draws d1, d2, d3
JitterHit(sc, v, d1, d2, d3) == SectorOf(v, d1 + d2 + d3) \in sc.local

\* ---------------------------------------------------------------------
\* The bake configuration: scene.s2_ao_*
\* ---------------------------------------------------------------------
Configs == [ray_count : 1..MaxRays, blend : 0..BlendDen,
            ground_plane : BOOLEAN, geonode_ao : BOOLEAN]

\* ---------------------------------------------------------------------
\* SXAO_generate.occlusion_list
\* ---------------------------------------------------------------------
\* clamp_blend = max(min(blend, 1.0), 0.0), as a numerator over BlendDen
clamp_blend(b) ==
    LET lo == IF b < BlendDen THEN b ELSE BlendDen
    IN  IF lo > 0 THEN lo ELSE 0

\* bias = 0.001, plus the probe's hit distance when it is a close self-hit;
\* in thousandths
ProbeBias(m) ==
    IF m.probe.hit /\ m.probe.facing /\ m.probe.dist < 500
    THEN 1 + m.probe.dist ELSE 1

NoEarlyCut(h, md, raycount) == raycount
\* first_hit_index: the 0-based index of the first sample whose dot is
\* below min_dot, raycount when there is none
FirstHitIndex(h, md, raycount) ==
    LET below == {k \in 1..Len(h) : h[k].dot < md}
    IN  IF below = {} THEN raycount
        ELSE (CHOOSE k \in below : \A j \in below : k <= j) - 1

\* one ray query the estimator issued: kind is "probe" (obj.ray_cast along
\* the normal), "local" (obj_eval.ray_cast of a sample), "scene"
\* (scene.ray_cast of a sample) or "jitter" (obj.ray_cast of a jittered
\* normal); v is the vertex, k the position of the sample in the sorted
\* list (the number of the ray for "jitter", 0 for "probe")
Query(kind, v, k) == [kind |-> kind, v |-> v, k |-> k]

\* if clamp_blend < 1.0: the local pass
LocalPassAlways(bn) == TRUE
LocalPassRuns(bn) == bn < BlendDen

\* if clamp_blend > 0.0: the scene pass
ScenePassRuns(bn) == bn > 0

\* occ_value * (1.0 - clamp_blend) + scn_occ_value * clamp_blend, occ and
\* scn_occ being numerators over raycount and bn a numerator over BlendDen
BlendSwapped(occ, scn_occ, bn, raycount) ==
    Frac(occ * bn + scn_occ * (BlendDen - bn), raycount * BlendDen)
BlendValues(occ, scn_occ, bn, raycount) ==
    Frac(occ * (BlendDen - bn) + scn_occ * bn, raycount * BlendDen)

\* the ascending list of the members of a set of numbers
RECURSIVE Ascending(_)
Ascending(S) ==
    IF S = {} THEN <<>>
    ELSE LET lo == CHOOSE k \in S : \A j \in S : k <= j
         IN  <<lo>> \o Ascending(S \ {lo})

\* if hit_local: occ_value -= contribution, for nhits hits; occ is a
\* numerator over raycount
LocalDeductNone(occ, nhits) == occ
LocalDeduct(occ, nhits) == occ - nhits

\* if not pass2_hits[i]: the samples the scene pass casts a ray for
SceneTestsAll(idxs, pass2_hits) == idxs
SceneTests(idxs, pass2_hits) == {k \in idxs : ~pass2_hits[k]}

OccStartProbed(probe, raycount) == IF probe.hit THEN raycount - 1 ELSE raycount
\* occ_value = 1.0, set after the probe along the normal has been cast and
\* its answer used for the bias (numerator over raycount)
OccStart(probe, raycount) == raycount

\* the body of the per-vertex loop for vertex v: the intermediate values
\* of occ_value (numerators over raycount), the value stored in
\* vert_occ[v] and the ray queries issued, in order
VertexLoop(m, v, h, c, sc, pl) ==
    LET raycount == c.ray_count
        bn == clamp_blend(c.blend)
        bias == ProbeBias(m)
        fhi == FirstHitIndex(h, m.min_dot[v + 1], raycount)
        \* occ_value = 1.0 - contribution * (raycount - first_hit_index)
        occ0 == OccStart(m.probe, raycount) - (raycount - fhi)
        valid_rays == SubSeq(h, 1, fhi)
        idxs == 1..Len(valid_rays)
        pass2_hits == [k \in idxs |->
                          LocalPassRuns(bn) /\ LocalHit(sc, v, valid_rays[k], bias)]
        occ1 == LocalDeduct(occ0, Cardinality({k \in idxs : pass2_hits[k]}))
        tested == SceneTests(idxs, pass2_hits)
        scn_occ == occ1 - Cardinality({k \in tested :
                                          SceneHit(sc, pl, v, valid_rays[k], bias)})
        local_q == IF LocalPassRuns(bn)
                   THEN [k \in idxs |-> Query("local", v, k)] ELSE <<>>
        scene_q == IF ScenePassRuns(bn)
                   THEN LET ks == Ascending(tested)
                        IN  [j \in 1..Len(ks) |-> Query("scene", v, ks[j])]
                   ELSE <<>>
    IN  [bias |-> bias, cut |-> fhi, after_cut |-> occ0, local |-> occ1,
         scene |-> IF ScenePassRuns(bn) THEN scn_occ ELSE occ1,
         blended |-> ScenePassRuns(bn),
         value |-> Clamp01(IF ScenePassRuns(bn)
                           THEN BlendValues(occ1, scn_occ, bn, raycount)
                           ELSE Frac(occ1, raycount)),
         queries |-> <<Query("probe", v, 0)>> \o local_q \o scene_q]

\* the value stored in vert_occ[v]
VertexOcclusion(m, v, h, c, sc, pl) == VertexLoop(m, v, h, c, sc, pl).value

\* for v_id, data in vert_dict.items(): the loop bodies in the order the
\* vertices are visited, order being a list of vertex indices
RECURSIVE VertexQueries(_, _, _, _, _, _)
VertexQueries(order, m, h, c, sc, pl) ==
    IF order = <<>> THEN <<>>
    ELSE VertexLoop(m, Head(order), h, c, sc, pl).queries
             \o VertexQueries(Tail(order), m, h, c, sc, pl)

SliceInsert(buf, a, vals) ==
    LET lo == IF a < Len(buf) THEN a ELSE Len(buf)
    IN  SubSeq(buf, 1, lo) \o vals \o SubSeq(buf, lo + 1, Len(buf))
\* loop_colors[a : a + 4] = vals on a Python list (a is 0-based): the
\* slice is clipped to the list, so past the end it appends
SliceAssign(buf, a, vals) ==
    LET lo == IF a < Len(buf) THEN a ELSE Len(buf)
        hi == IF a + 4 < Len(buf) THEN a + 4 ELSE Len(buf)
    IN  SubSeq(buf, 1, lo) \o vals \o SubSeq(buf, hi + 1, Len(buf))

\* [0.0, 0.0, 0.0, 1.0] * n
RECURSIVE InitialLoopColors(_)
InitialLoopColors(n) ==
    IF n = 0 THEN <<>> ELSE <<Zero, Zero, Zero, One>> \o InitialLoopColors(n - 1)

\* what is stored for one corner: [val, val, val, 1.0]
CornerColorNoAlpha(val) == <<val, val, val, Zero>>
CornerColor(val) == <<val, val, val, One>>

\* for poly ...: for vert_idx, loop_idx in zip(...): the slice assignments
RECURSIVE WriteLoopColors(_, _, _)
WriteLoopColors(buf, corners, occ) ==
    IF corners = <<>> THEN buf
    ELSE LET vert_idx == Head(corners)[1]
             loop_idx == Head(corners)[2]
         IN  WriteLoopColors(
                 SliceAssign(buf, loop_idx * 4, CornerColor(occ[vert_idx + 1])),
                 Tail(corners), occ)

\* occlusion_list(obj, raycount, blend, dist, groundplane) called with the
\* global generator in state s, the scene sc holding pl temporary planes.
\* kind: "ok" (a list is returned), "none" (None is returned), "raise"
occlusion_list(m, c, s, sc, pl) ==
    LET hs == ray_randomizer(c.ray_count, s)
        base == [kind |-> "ok", reason |-> "", colors |-> <<>>, vert_occ |-> <<>>,
                 rng |-> hs.rng, hemi |-> hs.out, sampled |-> TRUE,
                 queries |-> <<>>, trace |-> <<>>]
    IN  IF c.ray_count = 0
        THEN \* contribution = 1.0 / float(raycount): ZeroDivisionError
             [base EXCEPT !.kind = "raise", !.reason = "float division by zero"]
        ELSE IF m.nverts = 0 THEN [base EXCEPT !.kind = "none"]
        ELSE IF m.raises
        THEN [base EXCEPT !.kind = "raise", !.reason = "ray_cast failed",
                          !.queries = <<Query("probe", 0, 0)>>]
        ELSE LET occ == [v1 \in 1..m.nverts |->
                            VertexOcclusion(m, v1 - 1, hs.out, c, sc, pl)]
             IN  [base EXCEPT
                    !.vert_occ = occ,
                    !.trace = [v1 \in 1..m.nverts |->
                                  VertexLoop(m, v1 - 1, hs.out, c, sc, pl)],
                    !.queries = VertexQueries([v1 \in 1..m.nverts |-> v1 - 1],
                                              m, hs.out, c, sc, pl),
                    !.colors = WriteLoopColors(InitialLoopColors(LoopCount(m)),
                                               Corners(m.faces), occ)]

\* ---------------------------------------------------------------------
\* calculate_geonode_ao
\* ---------------------------------------------------------------------
\* for i in range(ray_count): three draws, one ray cast; the number of
\* hits and the generator's state after the loop.  (ray_dir.dot(normal) is
\* positive for every jitter, each offset being below 0.4 in size.)
RECURSIVE JitterRays(_, _, _, _, _)
JitterRays(n, s, v, sc, hits) ==
    IF n = 0 THEN [hits |-> hits, rng |-> s]
    ELSE LET d1 == RandomNext(s)
             d2 == RandomNext(d1)
             d3 == RandomNext(d2)
         IN  JitterRays(n - 1, d3, v, sc,
                        IF JitterHit(sc, v, d1, d2, d3) THEN hits + 1 ELSE hits)

\* ao_value before the clamp, for a vertex with the given number of hits:
\* 1 - hits/ray_count, times 1 - ground_factor * 0.5 when ground_plane is
\* set and pos.z < 0.1, where ground_factor = 1 - min(1, pos.z / 0.1)
JitterValue(hits, ray_count, ground_plane, posz) ==
    IF ray_count = 0
    THEN \* no ray, no subtraction: ao_value is still 1.0
         IF ground_plane /\ posz < 2 THEN Frac(2 + posz, 4) ELSE One
    ELSE IF ground_plane /\ posz < 2
    THEN Frac((ray_count - hits) * (2 + posz), 4 * ray_count)
    ELSE Frac(ray_count - hits, ray_count)

\* vert_ao[v.index] = max(0.0, min(1.0, ao_value))
StoreVertAO(x) == Clamp01(x)

\* for v in bm.verts: the values of vert_ao and the generator's state
RECURSIVE JitterVerts(_, _, _, _, _, _)
JitterVerts(v, m, c, s, sc, acc) ==
    IF v = m.nverts THEN [vert_ao |-> acc, rng |-> s]
    ELSE LET r == JitterRays(c.ray_count, s, v, sc, 0)
             x == JitterValue(r.hits, c.ray_count, c.ground_plane, m.posz[v + 1])
         IN  JitterVerts(v + 1, m, c, r.rng, sc, Append(acc, StoreVertAO(x)))

\* vert_ao.get(loop.vert.index, 1.0)
VertAOGet(occ, vert_idx) ==
    IF vert_idx + 1 \in DOMAIN occ THEN occ[vert_idx + 1] ELSE One

\* colors[loop_idx * 4 + k] = ... on a Python list: an index that is not
\* below the length raises IndexError
RECURSIVE WriteCorners(_, _, _)
WriteCorners(buf, corners, occ) ==
    IF corners = <<>> THEN [raised |-> FALSE, colors |-> buf]
    ELSE LET vert_idx == Head(corners)[1]
             loop_idx == Head(corners)[2]
             val == CornerColor(VertAOGet(occ, vert_idx))
         IN  IF loop_idx * 4 >= Len(buf)
             THEN [raised |-> TRUE, colors |-> buf]
             ELSE WriteCorners(
                     [p \in 1..Len(buf) |->
                         IF p > loop_idx * 4 /\ p <= loop_idx * 4 + 4
                         THEN val[p - loop_idx * 4] ELSE buf[p]],
                     Tail(corners), occ)

\* [0.0] * (4 * loop_count)
ZeroColors(n) == [p \in 1..n |-> Zero]

\* the obj.ray_cast calls of the two loops, in order: every jittered ray
\* of every vertex
JitterQueries(m, c) ==
    [j \in 1..(m.nverts * c.ray_count) |->
        Query("jitter", (j - 1) \div c.ray_count, ((j - 1) % c.ray_count) + 1)]

calculate_geonode_ao(m, c, s, sc) ==
    LET base == [kind |-> "ok", reason |-> "", colors |-> <<>>, vert_occ |-> <<>>,
                 rng |-> s, hemi |-> <<>>, sampled |-> FALSE,
                 queries |-> <<>>, trace |-> <<>>]
    IN  IF m.nverts > 0 /\ c.ray_count > 0 /\ m.raises
        THEN [base EXCEPT !.kind = "raise", !.reason = "ray_cast failed",
                          !.rng = JitterDraws(s),
                          !.queries = <<Query("jitter", 0, 1)>>]
        ELSE LET r == JitterVerts(0, m, c, s, sc, <<>>)
                 w == WriteCorners(ZeroColors(4 * LoopCount(m)),
                                   Corners(m.faces), r.vert_ao)
             IN  IF w.raised
                 THEN [base EXCEPT !.kind = "raise", !.rng = r.rng,
                          !.queries = JitterQueries(m, c),
                          !.reason = "list assignment index out of range"]
                 ELSE [base EXCEPT !.vert_occ = r.vert_ao, !.rng = r.rng,
                                   !.colors = w.colors,
                                   !.queries = JitterQueries(m, c)]

\* if geonode_ao: whether execute takes the jittered-normal estimator
UseGeonodeNever(c) == FALSE
UseGeonode(c) == c.geonode_ao

\* the estimator the configuration selects (execute, the if geonode_ao)
Estimate(m, c, s, sc, pl) ==
    IF UseGeonode(c) THEN calculate_geonode_ao(m, c, s, sc)
    ELSE occlusion_list(m, c, s, sc, pl)

\* before any estimator call
NoEst == [kind |-> "idle", reason |-> "", colors |-> <<>>, vert_occ |-> <<>>,
          rng |-> 0, hemi |-> <<>>, sampled |-> FALSE,
          queries |-> <<>>, trace |-> <<>>]

\* ---------------------------------------------------------------------
\* The operator's variables before execute is called
\* ---------------------------------------------------------------------
NoResult == [ret |-> "none", flag |-> "", text |-> "", processed |-> 0,
             total |-> 0, details |-> <<>>, more |-> 0]

BakeIdle ==
    /\ sel = <<>>
    /\ pc = "idle"
    /\ idx = 0
    /\ attrs = [o \in Names |-> <<>>]
    /\ processed_count = 0
    /\ failed_objects = <<>>
    /\ reports = <<>>
    /\ result = NoResult

\* occlusion_list is not inside its loop
LoopIdle ==
    /\ vert_occ = <<>>
    /\ visited = <<>>

\* a scene without objects, the naming properties at their defaults
NoNaming == [prefix |-> <<>>, name |-> <<>>, suffix |-> <<>>,
             add_sizes |-> FALSE, preserve_suffix |-> FALSE]

NamingIdle ==
    /\ objects = <<>>
    /\ naming = NoNaming
    /\ assigned = <<>>

\* no invocation of the naming handler is in progress
HandlerIdle ==
    /\ in_progress = FALSE
    /\ frames = <<>>
    /\ updates = <<>>

\* what a call of the estimator leaves behind in the sampler's variables
SamplerAfter(r, s) ==
    /\ rng' = r.rng
    /\ hemi' = IF r.sampled THEN r.hemi ELSE hemi
    /\ hemiCount' = IF r.sampled THEN cfg.ray_count ELSE hemiCount
    /\ hemiLog' = IF r.sampled
                  THEN Append(hemiLog, [count |-> cfg.ray_count, before |-> s,
                                        out |-> r.hemi])
                  ELSE hemiLog

\* ---------------------------------------------------------------------
\* OBJECT_OT_bake_ao_to_selected_attribute.execute (modules/ao_baking.py)
\* ---------------------------------------------------------------------
Min(a, b) == IF a < b THEN a ELSE b

\* s[:n]
Take(s, n) == SubSeq(s, 1, Min(n, Len(s)))

\* one call of self.report
Report(level, text, obj, pos, processed, total, details, more) ==
    [level |-> level, text |-> text, obj |-> obj, pos |-> pos,
     processed |-> processed, total |-> total, details |-> details,
     more |-> more]

\* utils.ensure_attribute_exists(obj, target_attr, ...): truthy or None
ensure_attribute_exists(m) == m.attr

\* len(colors) == 4 * len(obj.data.loops)
LengthAtLeast(colors, m) == Len(colors) >= 4 * LoopCount(m)
LengthMatches(colors, m) == Len(colors) = 4 * LoopCount(m)

\* where the loop goes after a failure was recorded: the continue
\* statements, and the end of the loop body after the except clause
AbortAfterFailure(i) == Len(sel) + 1
NextAfterFailure(i) == i + 1

\* the scenes the operator is run in
BakeScenes == {[local |-> {}, world |-> {}], [local |-> {0}, world |-> {1}]}

\* the mesh objects selected, in selection order: no object twice
Selections ==
    {s \in UNION {[1..n -> Names] : n \in 0..MaxSel} :
        \A a, b \in DOMAIN s : a # b => s[a] # s[b]}

\* context.active_object when an operator is run: one of the selected
\* objects, here the first
ActiveOf(s) == IF s = <<>> THEN "tri" ELSE s[1]

\* the objects of the view layer: the meshes and a light
ViewLayer == Names \cup {"lamp"}

\* the view layer when the operator is run on the selection s: the meshes
\* of s and the light are selected, the active object is ActiveOf(s)
ViewOf(s) ==
    [selected |-> [o \in ViewLayer |->
                      o = "lamp" \/ \E k \in 1..Len(s) : s[k] = o],
     active |-> ActiveOf(s)]

\* execute has not saved anything
NoSaved == [selection |-> <<>>, active |-> ""]

ViewIdle ==
    /\ view = ViewOf(<<>>)
    /\ saved = NoSaved

\* obj.select_set(flag)
select_set(vw, o, flag) == [vw EXCEPT !.selected[o] = flag]

\* context.view_layer.objects.active = obj followed by obj.select_set(True)
MakeCurrent(vw, o) == [select_set(vw, o, TRUE) EXCEPT !.active = o]

\* create_ground_plane, lines 137-148: primitive_plane_add leaves the new
\* plane as the only selected object and the active one, the plane is
\* deselected, obj is selected and made active again
create_ground_plane(vw, o) ==
    [selected |-> [x \in ViewLayer |-> x = o], active |-> o]

KeepSelection(original, current) == current
\* for obj, was_selected in original_selection.items():
\*     obj.select_set(was_selected)
RestoreSelection(original, current) ==
    [o \in DOMAIN current |-> IF o \in DOMAIN original THEN original[o]
                                                       ELSE current[o]]

Init ==
    /\ rng = 0
    /\ hemi = <<>>
    /\ hemiCount = 0
    /\ hemiLog = <<>>
    /\ calls = 0
    /\ scn \in BakeScenes
    /\ planes = 0
    /\ cfg \in Configs
    /\ est = NoEst
    /\ prevEst = NoEst
    /\ sel \in Selections
    /\ target = ActiveOf(sel)
    /\ pc = "idle"
    /\ idx = 0
    /\ attrs = [o \in Names |-> <<>>]
    /\ processed_count = 0
    /\ failed_objects = <<>>
    /\ reports = <<>>
    /\ result = NoResult
    /\ LoopIdle
    /\ NamingIdle
    /\ view = ViewOf(sel)
    /\ saved = NoSaved
    /\ HandlerIdle

\* lines 22-49: the selection is read, the counters are set up
Begin ==
    /\ pc = "idle"
    /\ IF sel = <<>>
       THEN /\ reports' = Append(reports,
                   Report("ERROR", "No mesh objects selected", "", 0, 0, 0, <<>>, 0))
            /\ result' = [NoResult EXCEPT !.ret = "set", !.flag = "CANCELLED"]
            /\ pc' = "done"
            /\ idx' = idx
       ELSE /\ reports' = Append(reports,
                   Report("INFO", "Starting AO baking", "", 0, 0, Len(sel), <<>>, 0))
            /\ result' = result
            /\ pc' = "loop"
            /\ idx' = 1
    /\ processed_count' = 0
    /\ failed_objects' = <<>>
    /\ UNCHANGED <<rng, samplerVars, calls, estVars, sel, attrs,
                   loopVars, namingVars,
                   handlerVars>>
    /\ IF sel = <<>>
       THEN UNCHANGED viewVars
       ELSE /\ saved' = [selection |-> view.selected, active |-> view.active]
            /\ view' = [view EXCEPT !.selected = [o \in ViewLayer |-> FALSE]]

\* lines 51-64: the head of the loop body, up to the attribute
EnsureAttribute ==
    /\ pc = "loop"
    /\ idx <= Len(sel)
    /\ LET obj == Mesh(sel[idx])
       IN  /\ reports' = Append(reports,
                  Report("INFO", "Processing object", obj.name, idx, 0, Len(sel),
                         <<>>, 0))
           /\ IF ~ensure_attribute_exists(obj)
              THEN /\ failed_objects' = Append(failed_objects,
                          <<obj.name, "Failed to create attribute">>)
                   /\ idx' = NextAfterFailure(idx)
                   /\ pc' = "loop"
              ELSE /\ failed_objects' = failed_objects
                   /\ idx' = idx
                   /\ pc' = "calc"
    /\ UNCHANGED <<rng, samplerVars, calls, estVars, sel, attrs,
                   processed_count, result,
                   loopVars, namingVars,
                   handlerVars>>
    /\ saved' = saved
    /\ view' = IF ensure_attribute_exists(Mesh(sel[idx]))
               THEN MakeCurrent(view, sel[idx])
               ELSE select_set(MakeCurrent(view, sel[idx]), sel[idx], FALSE)

\* lines 68-69 and 91-95: the jittered-normal estimator
CalcGeonode ==
    /\ pc = "calc"
    /\ UseGeonode(cfg)
    /\ LET obj == Mesh(sel[idx])
           r == calculate_geonode_ao(obj, cfg, rng, scn)
       IN  /\ est' = r
           /\ rng' = r.rng
           /\ IF r.kind = "raise"
              THEN /\ failed_objects' = Append(failed_objects, <<obj.name, r.reason>>)
                   /\ idx' = NextAfterFailure(idx)
                   /\ pc' = "loop"
              ELSE /\ failed_objects' = failed_objects
                   /\ idx' = idx
                   /\ pc' = "verify"
    /\ UNCHANGED <<samplerVars, calls, scn, planes, cfg, target, prevEst, sel,
                   attrs, processed_count, reports, result,
                   loopVars, namingVars,
                   handlerVars>>
    /\ saved' = saved
    /\ view' = IF est'.kind = "raise" THEN select_set(view, sel[idx], FALSE)
                                      ELSE view

\* lines 71-74, create_ground_plane (131-149): the plane is added to the
\* scene when ground_plane is set
PrepareHemisphere ==
    /\ pc = "calc"
    /\ ~UseGeonode(cfg)
    /\ planes' = IF cfg.ground_plane THEN planes + 1 ELSE planes
    /\ pc' = "occlusion"
    /\ UNCHANGED <<rng, samplerVars, calls, scn, cfg, target, est, prevEst, sel,
                   idx, attrs, processed_count, failed_objects, reports, result,
                   loopVars, namingVars,
                   handlerVars>>
    /\ saved' = saved
    /\ view' = IF cfg.ground_plane THEN create_ground_plane(view, sel[idx])
                                   ELSE view

\* lines 75-77 and 91-95: the hemisphere estimator, then the removal of
\* the plane, which an exception raised by the estimator skips
CalcHemisphere ==
    /\ pc = "occlusion"
    /\ LET obj == Mesh(sel[idx])
           r == occlusion_list(obj, cfg, rng, scn, planes)
       IN  /\ est' = r
           /\ SamplerAfter(r, rng)
           /\ IF r.kind = "raise"
              THEN /\ failed_objects' = Append(failed_objects, <<obj.name, r.reason>>)
                   /\ idx' = NextAfterFailure(idx)
                   /\ pc' = "loop"
                   /\ planes' = planes
              ELSE /\ failed_objects' = failed_objects
                   /\ idx' = idx
                   /\ pc' = "verify"
                   /\ planes' = IF cfg.ground_plane THEN planes - 1 ELSE planes
    /\ UNCHANGED <<calls, scn, cfg, target, prevEst, sel, attrs,
                   processed_count, reports, result,
                   loopVars, namingVars,
                   handlerVars>>
    /\ saved' = saved
    /\ view' = IF est'.kind = "raise" THEN select_set(view, sel[idx], FALSE)
                                      ELSE view

\* lines 79-95: the returned colors are checked and stored
Verify ==
    /\ pc = "verify"
    /\ LET obj == Mesh(sel[idx])
           colors == est.colors
       IN  IF est.kind = "none" \/ colors = <<>>
           THEN /\ failed_objects' = Append(failed_objects,
                       <<obj.name, "AO calculation returned no data">>)
                /\ idx' = NextAfterFailure(idx)
                /\ UNCHANGED <<attrs, processed_count>>
           ELSE IF LengthMatches(colors, obj)
           THEN /\ attrs' = [attrs EXCEPT ![obj.name] = colors]
                /\ processed_count' = processed_count + 1
                /\ idx' = idx + 1
                /\ failed_objects' = failed_objects
           ELSE /\ failed_objects' = Append(failed_objects,
                       <<obj.name, "Loop color array size mismatch">>)
                /\ idx' = NextAfterFailure(idx)
                /\ UNCHANGED <<attrs, processed_count>>
    /\ pc' = "loop"
    /\ UNCHANGED <<rng, samplerVars, calls, estVars, sel, reports, result,
                   loopVars, namingVars,
                   handlerVars>>
    /\ saved' = saved
    /\ view' = select_set(view, sel[idx], FALSE)

\* lines 97-129: after the loop, the outcome is reported and returned
Finish ==
    /\ pc = "loop"
    /\ idx > Len(sel)
    /\ LET total == Len(sel)
           nfail == Len(failed_objects)
       IN  IF processed_count = 0
           THEN /\ reports' = Append(reports,
                       Report("ERROR", "Failed to bake AO on any objects", "", 0,
                              0, total, Take(failed_objects, 5),
                              IF nfail > 5 THEN nfail - 5 ELSE 0))
                /\ result' = [NoResult EXCEPT !.ret = "set", !.flag = "CANCELLED"]
           ELSE IF processed_count < total
           THEN /\ reports' = reports
                /\ result' = [ret |-> "tuple", flag |-> "WARNING",
                              text |-> "Successfully baked SXAO; objects failed",
                              processed |-> processed_count, total |-> total,
                              details |-> Take(failed_objects, 3),
                              more |-> IF nfail > 3 THEN nfail - 3 ELSE 0]
           ELSE /\ reports' = Append(reports,
                       Report("INFO", "Successfully baked SXAO on all objects", "",
                              0, processed_count, total, <<>>, 0))
                /\ result' = [NoResult EXCEPT !.ret = "set", !.flag = "FINISHED"]
    /\ pc' = "done"
    /\ UNCHANGED <<rng, samplerVars, calls, estVars, sel, idx, attrs,
                   processed_count, failed_objects,
                   loopVars, namingVars,
                   handlerVars>>
    /\ saved' = saved
    /\ view' = [selected |-> RestoreSelection(saved.selection, view.selected),
                active |-> saved.active]

\* ---------------------------------------------------------------------
\* OBJECT_OT_bake_ao_to_selected_attribute.execute (__init__.py): the bake
\* of the active object alone.  An exception of the estimator is not
\* caught here: it leaves execute.
\* ---------------------------------------------------------------------
ExecuteSingle ==
    /\ pc = "idle"
    /\ LET obj == Mesh(target)
           r == occlusion_list(obj, cfg, rng, scn, planes)
           error(text) == /\ reports' = Append(reports,
                                 Report("ERROR", text, obj.name, 0, 0, 1, <<>>, 0))
                          /\ result' = [NoResult EXCEPT !.ret = "set",
                                                        !.flag = "CANCELLED"]
                          /\ attrs' = attrs
       IN  IF ~ensure_attribute_exists(obj)
           THEN /\ error("Failed to create attribute")
                /\ UNCHANGED <<rng, samplerVars, est>>
           ELSE /\ est' = r
                /\ SamplerAfter(r, rng)
                /\ IF r.kind = "raise"
                   THEN /\ result' = [NoResult EXCEPT !.ret = "raise",
                                                      !.text = r.reason]
                        /\ UNCHANGED <<reports, attrs>>
                   ELSE IF r.kind = "none" \/ r.colors = <<>>
                   THEN error("AO calculation returned no data")
                   ELSE IF LengthMatches(r.colors, obj)
                   THEN /\ attrs' = [attrs EXCEPT ![obj.name] = r.colors]
                        /\ reports' = Append(reports,
                               Report("INFO", "Successfully baked SXAO", obj.name,
                                      0, 1, 1, <<>>, 0))
                        /\ result' = [NoResult EXCEPT !.ret = "set",
                                                      !.flag = "FINISHED"]
                   ELSE error("Loop color array size mismatch")
    /\ pc' = "done_single"
    /\ UNCHANGED <<calls, scn, planes, cfg, target, prevEst, sel, idx,
                   processed_count, failed_objects,
                   loopVars, namingVars,
                   viewVars, handlerVars>>

Next ==
    \/ Begin
    \/ EnsureAttribute
    \/ CalcGeonode
    \/ PrepareHemisphere
    \/ CalcHemisphere
    \/ Verify
    \/ Finish
    \/ ExecuteSingle

Spec == Init /\ [][Next]_vars

\* ---------------------------------------------------------------------
\* Bake operator properties
\* ---------------------------------------------------------------------
\* C1: with ground-plane mode on, no temporary plane is in the scene
\* before an object's bake starts, after it completed or failed, or after
\* the operator returned.
GroundPlaneAbsent ==
    pc \in {"idle", "loop", "done"} => planes = 0

IsProcessingReport(r) == r.text = "Processing object"

\* C2: a failure on one object never aborts the run: every selected mesh
\* object is attempted exactly once, in selection order, and every failure
\* is recorded with the object's name and a reason.
EveryObjectAttempted ==
    (pc = "done" /\ sel # <<>>) =>
        LET attempts == SelectSeq(reports, IsProcessingReport)
        IN  /\ Len(attempts) = Len(sel)
            /\ \A k \in 1..Len(sel) : attempts[k].obj = sel[k]
            /\ \A j \in 1..Len(failed_objects) :
                   /\ \E k \in 1..Len(sel) : failed_objects[j][1] = sel[k]
                   /\ failed_objects[j][2] # ""
            /\ \A k \in 1..Len(sel) :
                   attrs[sel[k]] = <<>> =>
                       \E j \in 1..Len(failed_objects) : failed_objects[j][1] = sel[k]

\* a finished run of two objects whose first object failed with an
\* exception raised during estimation and whose second object was baked
EveryObjectAttemptedWitness ==
    /\ pc = "done"
    /\ Len(sel) = 2
    /\ failed_objects = << <<sel[1], "ray_cast failed">> >>
    /\ attrs[sel[2]] # <<>>

\* C3: when at least one but not all selected objects bake successfully,
\* the operator returns {'FINISHED'} and reports the success and failure
\* counts with the first few failure reasons.
PartialSuccessFinishes ==
    (pc = "done" /\ processed_count > 0 /\ processed_count < Len(sel)) =>
        /\ result.ret = "set"
        /\ result.flag = "FINISHED"
        /\ LET last == reports[Len(reports)]
           IN  /\ last.processed = processed_count
               /\ last.total = Len(sel)
               /\ last.details = Take(failed_objects, 3)

\* C4: a color buffer whose length is not 4 x the object's corner count is
\* never stored: the step that checks it records a size-mismatch failure
\* for that object and changes no attribute and no success count (the
\* single-object operator: reports the size mismatch and is cancelled),
\* and no attribute ever holds a buffer of another length.
MismatchNeverCommitted ==
    [][/\ (pc = "verify" /\ Len(est.colors) # 4 * LoopCount(Mesh(sel[idx]))) =>
             /\ attrs' = attrs
             /\ processed_count' = processed_count
             /\ failed_objects' = Append(failed_objects,
                    <<sel[idx], "Loop color array size mismatch">>)
       /\ (/\ pc = "idle" /\ pc' = "done_single"
           /\ est'.kind = "ok" /\ est'.colors # <<>>
           /\ Len(est'.colors) # 4 * LoopCount(Mesh(target))) =>
             /\ attrs' = attrs
             /\ result'.flag = "CANCELLED"
             /\ reports'[Len(reports')].text = "Loop color array size mismatch"
       /\ \A o \in Names :
             attrs'[o] # <<>> => Len(attrs'[o]) = 4 * LoopCount(Mesh(o))
      ]_vars

\* the loop, right after the buffer of the second object was refused for
\* its length, the first object baked
MismatchNeverCommittedWitness ==
    /\ pc = "loop"
    /\ idx = 3
    /\ processed_count = 1
    /\ attrs[sel[1]] # <<>>
    /\ failed_objects = << <<sel[2], "Loop color array size mismatch">> >>
    /\ est.colors # <<>>
    /\ Len(est.colors) # 4 * LoopCount(Mesh(sel[2]))
    /\ attrs[sel[2]] = <<>>

\* ---------------------------------------------------------------------
\* Sampler harness: calls of ray_randomizer interleaved with the draws
\* other code makes from the same module-global generator
\* ---------------------------------------------------------------------
InitSampler ==
    /\ rng \in 0..(RngMod - 1)
    /\ hemi = <<>>
    /\ hemiCount = 0
    /\ hemiLog = <<>>
    /\ calls = 0
    /\ scn = [local |-> {}, world |-> {}]
    /\ planes = 0
    /\ cfg = [ray_count |-> 1, blend |-> 0, ground_plane |-> FALSE,
              geonode_ao |-> FALSE]
    /\ target = "tri"
    /\ est = NoEst
    /\ prevEst = NoEst
    /\ BakeIdle
    /\ LoopIdle
    /\ NamingIdle
    /\ ViewIdle
    /\ HandlerIdle

\* a call generator.ray_randomizer(count)
SamplerCall ==
    /\ calls < MaxCalls
    /\ \E count \in 1..MaxCount :
          LET r == ray_randomizer(count, rng)
          IN  /\ hemi' = r.out
              /\ hemiCount' = count
              /\ rng' = r.rng
              /\ hemiLog' = Append(hemiLog,
                     [count |-> count, before |-> rng, out |-> r.out])
    /\ calls' = calls + 1
    /\ UNCHANGED <<estVars, bakeVars, loopVars, namingVars,
                   viewVars, handlerVars>>

OtherDraws ==
    /\ calls < MaxCalls
    /\ rng' = JitterDraws(rng)
    /\ calls' = calls + 1
    /\ UNCHANGED <<samplerVars, estVars, bakeVars, loopVars, namingVars,
                   viewVars, handlerVars>>

NextSampler == SamplerCall \/ OtherDraws

SpecSampler == InitSampler /\ [][NextSampler]_vars

\* ---------------------------------------------------------------------
\* Sampler properties
\* ---------------------------------------------------------------------
\* C6: for every ray_count >= 1 the sampler returns exactly ray_count
\* directions, each with z >= 0, with z non-increasing along the list.
SamplerShape ==
    hemiCount >= 1 =>
        /\ Len(hemi) = hemiCount
        /\ \A k \in 1..Len(hemi) : hemi[k].dot >= 0
        /\ \A k \in 1..(Len(hemi) - 1) : hemi[k].dot >= hemi[k + 1].dot

\* a call with the largest count whose draws did not come out in order
SamplerShapeWitness ==
    /\ hemiCount = MaxCount
    /\ hemi[1].dot > hemi[MaxCount].dot
    /\ hemi # HemiLoop(MaxCount, RandomSeed(Seed), <<>>).out

\* C7: two sampler calls with the same ray_count return identical lists,
\* whatever draws and sampler calls happened in between.
SamplerDeterministic ==
    \A a, b \in 1..Len(hemiLog) :
        hemiLog[a].count = hemiLog[b].count => hemiLog[a].out = hemiLog[b].out

\* two calls with one count, entered with the global generator in different
\* states, and a call with another count between them
SamplerDeterministicWitness ==
    \E a, b, c \in 1..Len(hemiLog) :
        /\ a < c /\ c < b
        /\ hemiLog[a].count = hemiLog[b].count
        /\ hemiLog[c].count # hemiLog[a].count
        /\ hemiLog[a].before # hemiLog[b].before

\* C9: a sampler call changes no state other code can observe: the
\* module-global generator is in the same state after the call as before.
SamplerNoSideEffect ==
    [][Len(hemiLog') > Len(hemiLog) => rng' = rng]_vars

\* ---------------------------------------------------------------------
\* Estimator harness: the configured estimator run again and again on one
\* object of a static scene
\* ---------------------------------------------------------------------
\* the temporary planes in the scene while the estimator runs: the one
\* execute creates before occlusion_list when ground_plane is set
PlanesDuring(c) == IF c.ground_plane /\ ~c.geonode_ao THEN 1 ELSE 0

InitEst ==
    /\ rng \in 0..(RngMod - 1)
    /\ hemi = <<>>
    /\ hemiCount = 0
    /\ hemiLog = <<>>
    /\ calls = 0
    /\ scn \in Scenes
    /\ cfg \in Configs
    /\ planes = PlanesDuring(cfg)
    /\ target \in Names
    /\ est = NoEst
    /\ prevEst = NoEst
    /\ BakeIdle
    /\ LoopIdle
    /\ NamingIdle
    /\ ViewIdle
    /\ HandlerIdle

EstimatorCall ==
    /\ calls < MaxEst
    /\ LET r == Estimate(Mesh(target), cfg, rng, scn, planes)
       IN  /\ est' = r
           /\ prevEst' = est
           /\ SamplerAfter(r, rng)
    /\ calls' = calls + 1
    /\ UNCHANGED <<scn, planes, cfg, target, bakeVars, loopVars, namingVars,
                   viewVars, handlerVars>>

NextEst == EstimatorCall

SpecEst == InitEst /\ [][NextEst]_vars

\* ---------------------------------------------------------------------
\* Estimator properties
\* ---------------------------------------------------------------------
\* C5: every per-vertex occlusion value either estimator produces lies in
\* [0,1], and so does every R, G and B entry of a returned color buffer.
OcclusionInUnit ==
    est.kind = "ok" =>
        /\ \A v \in 1..Len(est.vert_occ) : InUnit(est.vert_occ[v])
        /\ \A p \in 1..Len(est.colors) : InUnit(est.colors[p])

\* a result with a value strictly inside (0,1) and a value the clamp of
\* the jittered-normal estimator brought up to 0
OcclusionInUnitWitness ==
    /\ est.kind = "ok"
    /\ cfg.geonode_ao /\ cfg.ground_plane /\ target = "bowl"
    /\ JitterValue(0, cfg.ray_count, TRUE, Mesh(target).posz[1])[1] < 0
    /\ est.vert_occ[1] = Zero
    /\ \E v \in 1..Len(est.vert_occ) : est.vert_occ[v] \notin {Zero, One}

\* C8: running the estimator twice on the same static mesh, scene and
\* configuration reproduces the same OcclusionResult, in both modes.
EstimatorIdempotent ==
    prevEst.kind # "idle" =>
        /\ est.kind = prevEst.kind
        /\ est.vert_occ = prevEst.vert_occ

\* every corner index below the loop count, each in exactly one face
CornersWellFormed(m) ==
    LET cs == Corners(m.faces)
    IN  /\ \A k \in 1..Len(cs) : cs[k][2] \in 0..(m.nloops - 1)
        /\ \A l \in 0..(m.nloops - 1) :
               Cardinality({k \in 1..Len(cs) : cs[k][2] = l}) = 1

\* C10: on a mesh whose corners each belong to exactly one face, the
\* returned buffer holds (v, v, v, 1.0) at positions 4*corner..4*corner+3,
\* v being the occlusion value of the vertex at that corner.
WriterCornerColors ==
    (est.kind = "ok" /\ CornersWellFormed(Mesh(target))) =>
        LET cs == Corners(Mesh(target).faces)
        IN  \A k \in 1..Len(cs) :
               LET val == est.vert_occ[cs[k][1] + 1]
                   at == 4 * cs[k][2]
               IN  /\ Len(est.colors) >= at + 4
                   /\ est.colors[at + 1] = val
                   /\ est.colors[at + 2] = val
                   /\ est.colors[at + 3] = val
                   /\ est.colors[at + 4] = One

\* a two-face mesh with shared vertices whose vertices got different values
WriterCornerColorsWitness ==
    /\ est.kind = "ok"
    /\ target = "bowl"
    /\ est.vert_occ[1] # est.vert_occ[3]
    /\ est.colors[1] = est.vert_occ[1]
    /\ est.colors[4 * 3 + 1] = est.vert_occ[1]
    /\ est.colors[4 * 4 + 1] = est.vert_occ[3]

\* ---------------------------------------------------------------------
\* The bake operator run with argument values outside the ranges the
\* estimator is meant for: a ray count of 0, a blend or a distance below 0
\* ---------------------------------------------------------------------
\* raycount, blend (a numerator over BlendDen), dist
ArgDistances == {0 - 1, 10}
ArgConfigs == [ray_count : 0..MaxRays, blend : (0 - 1)..(BlendDen + 1),
               dist : ArgDistances,
               ground_plane : BOOLEAN, geonode_ao : BOOLEAN]

InitArgs ==
    /\ rng = 0
    /\ hemi = <<>>
    /\ hemiCount = 0
    /\ hemiLog = <<>>
    /\ calls = 0
    /\ scn \in BakeScenes
    /\ planes = 0
    /\ cfg \in ArgConfigs
    /\ est = NoEst
    /\ prevEst = NoEst
    /\ sel \in {s \in Selections : Len(s) <= 1}
    /\ target = ActiveOf(sel)
    /\ pc = "idle"
    /\ idx = 0
    /\ attrs = [o \in Names |-> <<>>]
    /\ processed_count = 0
    /\ failed_objects = <<>>
    /\ reports = <<>>
    /\ result = NoResult
    /\ LoopIdle
    /\ NamingIdle
    /\ view = ViewOf(sel)
    /\ saved = NoSaved
    /\ HandlerIdle

SpecArgs == InitArgs /\ [][Next]_vars

\* C11: a bake requested with ray_count = 0 is refused at once as invalid
\* input: no sample is generated, no ray query is issued, no ground plane
\* is created, no color is written, and the operator ends cancelled.
ZeroRayCountRejected ==
    cfg.ray_count = 0 =>
        /\ est.hemi = <<>>
        /\ est.queries = <<>>
        /\ est.kind # "ok"
        /\ planes = 0
        /\ \A o \in Names : attrs[o] = <<>>
        /\ pc \in {"done", "done_single"} =>
               result.ret = "set" /\ result.flag = "CANCELLED"

\* C12: a bake requested with a negative blend factor or a negative
\* maximum ray distance is refused at once as invalid input: nothing is
\* computed and no occlusion result is produced.
NegativeInputRejected ==
    (cfg.blend < 0 \/ cfg.dist < 0) =>
        /\ est.kind \in {"idle"}
        /\ hemiLog = <<>>
        /\ planes = 0
        /\ \A o \in Names : attrs[o] = <<>>
        /\ pc \in {"done", "done_single"} =>
               result.ret = "set" /\ result.flag = "CANCELLED"

\* ---------------------------------------------------------------------
\* Ray query failures
\* ---------------------------------------------------------------------
\* C13: when a ray query of the object raises, the ray counts as "no hit"
\* and the estimation still ends with a complete result: a value for every
\* vertex and a color buffer, the failing query issued once.
RayFailureTolerated ==
    (Mesh(target).raises /\ est.kind # "idle") =>
        /\ est.kind = "ok"
        /\ Len(est.vert_occ) = Mesh(target).nverts
        /\ Len(est.colors) = 4 * LoopCount(Mesh(target))

\* ---------------------------------------------------------------------
\* occlusion_list step by step: the bodies of its per-vertex loop run one
\* vertex at a time, the vertices taken in any order
\* ---------------------------------------------------------------------
\* the objects the loop is entered for: vert_dict is not empty and no ray
\* cast raises
LoopObjects == {m.name : m \in {x \in Meshes : x.nverts > 0 /\ ~x.raises}}

InitLoop ==
    /\ rng = 0
    /\ hemi = <<>>
    /\ hemiCount = 0
    /\ hemiLog = <<>>
    /\ calls = 0
    /\ scn \in Scenes
    /\ cfg \in {c \in Configs : ~c.geonode_ao}
    /\ planes = PlanesDuring(cfg)
    /\ target \in LoopObjects
    /\ est = NoEst
    /\ prevEst = NoEst
    /\ BakeIdle
    /\ LoopIdle
    /\ NamingIdle
    /\ ViewIdle
    /\ HandlerIdle

\* vert_occ[v_id] = ...: the key of the dict that the body of vertex v
\* assigns to
SlotShared(v) == 0
SlotOf(v) == v

\* lines 219-234: the sampler is called, every vertex gets the value 1.0
EnterLoop ==
    /\ est.kind = "idle"
    /\ vert_occ = <<>>
    /\ LET r == ray_randomizer(cfg.ray_count, rng)
       IN  /\ rng' = r.rng
           /\ hemi' = r.out
           /\ hemiCount' = cfg.ray_count
           /\ hemiLog' = Append(hemiLog, [count |-> cfg.ray_count,
                                          before |-> rng, out |-> r.out])
    /\ vert_occ' = [v1 \in 1..Mesh(target).nverts |-> One]
    /\ visited' = <<>>
    /\ UNCHANGED <<calls, estVars, bakeVars, namingVars,
                   viewVars, handlerVars>>

\* lines 236-277: the loop body of one vertex that was not visited yet
VertexStep ==
    /\ est.kind = "idle"
    /\ vert_occ # <<>>
    /\ \E v \in 0..(Mesh(target).nverts - 1) :
          /\ \A j \in 1..Len(visited) : visited[j] # v
          /\ vert_occ' = [vert_occ EXCEPT ![SlotOf(v) + 1] =
                             VertexLoop(Mesh(target), v, hemi, cfg, scn, planes).value]
          /\ visited' = Append(visited, v)
    /\ UNCHANGED <<rng, samplerVars, calls, estVars, bakeVars, namingVars,
                   viewVars, handlerVars>>

\* lines 279-284: after the last vertex the colors are written and returned
LeaveLoop ==
    /\ est.kind = "idle"
    /\ vert_occ # <<>>
    /\ Len(visited) = Mesh(target).nverts
    /\ LET m == Mesh(target)
       IN  est' = [kind |-> "ok", reason |-> "", vert_occ |-> vert_occ,
                   colors |-> WriteLoopColors(InitialLoopColors(LoopCount(m)),
                                              Corners(m.faces), vert_occ),
                   rng |-> rng, hemi |-> hemi, sampled |-> TRUE,
                   queries |-> VertexQueries(visited, m, hemi, cfg, scn, planes),
                   trace |-> [v1 \in 1..m.nverts |->
                                 VertexLoop(m, v1 - 1, hemi, cfg, scn, planes)]]
    /\ UNCHANGED <<rng, samplerVars, calls, scn, planes, cfg, target, prevEst,
                   bakeVars, loopVars, namingVars,
                   viewVars, handlerVars>>

NextLoop == EnterLoop \/ VertexStep \/ LeaveLoop

SpecLoop == InitLoop /\ [][NextLoop]_vars

Ord == [a |-> 97, b |-> 98, n |-> 110, p |-> 112, q |-> 113, x |-> 120,
        y |-> 121, z |-> 122, A |-> 65, Z |-> 90, d0 |-> 48, d1 |-> 49,
        d2 |-> 50, d9 |-> 57, underscore |-> 95, minus |-> 45]

\* str.isalpha() and str.isdigit(), for ASCII strings
isalpha(s) ==
    /\ s # <<>>
    /\ \A k \in 1..Len(s) : s[k] \in (Ord.A..Ord.Z) \cup (Ord.a..Ord.z)
isdigit(s) ==
    /\ s # <<>>
    /\ \A k \in 1..Len(s) : s[k] \in Ord.d0..Ord.d9

\* int(s) of a string of digits
RECURSIVE ParseInt(_)
ParseInt(s) ==
    IF s = <<>> THEN 0
    ELSE 10 * ParseInt(SubSeq(s, 1, Len(s) - 1)) + (s[Len(s)] - Ord.d0)

\* str(n) of a number n >= 0
RECURSIVE FormatInt(_)
FormatInt(n) ==
    IF n < 10 THEN <<Ord.d0 + n>>
    ELSE FormatInt(n \div 10) \o <<Ord.d0 + (n % 10)>>

\* "_".join(part for part in name_parts if part)
RECURSIVE Join(_)
Join(parts) ==
    IF parts = <<>> THEN <<>>
    ELSE LET rest == Join(Tail(parts))
         IN  IF Head(parts) = <<>> THEN rest
             ELSE IF rest = <<>> THEN Head(parts)
             ELSE Head(parts) \o <<Ord.underscore>> \o rest

\* '_' in s
HasUnderscore(s) == \E k \in 1..Len(s) : s[k] = Ord.underscore

\* s.split('_')[-1]: what follows the last underscore
LastSegment(s) ==
    LET us == {k \in 1..Len(s) : s[k] = Ord.underscore}
        cut == IF us = {} THEN 0 ELSE CHOOSE k \in us : \A j \in us : j <= k
    IN  SubSeq(s, cut + 1, Len(s))

\* increment_suffix(suffix)
RECURSIVE increment_suffix(_)
increment_suffix(suffix) ==
    IF suffix = <<>> THEN <<Ord.a>>
    ELSE IF isdigit(suffix) THEN FormatInt(ParseInt(suffix) + 1)
    ELSE LET last_char == suffix[Len(suffix)]
             rest == SubSeq(suffix, 1, Len(suffix) - 1)
         IN  IF last_char = Ord.z
             THEN IF rest # <<>> THEN increment_suffix(rest) \o <<Ord.a>>
                  ELSE <<Ord.a, Ord.a>>
             ELSE rest \o <<last_char + 1>>

\* ---------------------------------------------------------------------
\* OBJECT_OT_apply_naming_convention (modules/naming.py)
\* ---------------------------------------------------------------------
\* largest number of objects in the scene
MaxObjs == 2
\* number of times the operator is run
MaxApply == 2

\* An object of the scene: its name, its type, whether it is selected, its
\* s2_* custom properties (a function from the keys that are set) and the
\* size string format_dimensions gives for it.
ObjectTable ==
    { [name |-> <<Ord.p, Ord.underscore, Ord.n, Ord.underscore, Ord.a>>,
       type |-> "MESH", props |-> <<>>, size |-> <<Ord.d1, Ord.d2>>],
      [name |-> <<Ord.p, Ord.underscore, Ord.n, Ord.underscore, Ord.b>>,
       type |-> "MESH", props |-> <<>>, size |-> <<Ord.d1, Ord.d2>>],
      [name |-> <<Ord.p, Ord.underscore, Ord.n, Ord.underscore, Ord.z>>,
       type |-> "MESH", props |-> <<>>, size |-> <<>>],
      [name |-> <<Ord.q>>,
       type |-> "MESH", props |-> [suffix |-> <<Ord.d9>>],
       size |-> <<Ord.d1, Ord.underscore, Ord.d2>>],
      [name |-> <<Ord.p, Ord.underscore, Ord.n, Ord.underscore, Ord.d9>>,
       type |-> "EMPTY", props |-> <<>>, size |-> <<>>],
      [name |-> <<Ord.x, Ord.underscore, Ord.y>>,
       type |-> "MESH",
       props |-> [prefix |-> <<Ord.p>>, name |-> <<Ord.n>>,
                  suffix |-> <<Ord.minus>>],
       size |-> <<Ord.d1, Ord.d2>>] }

\* an object of the table, selected or not (obj.select_get())
Selectable ==
    {[name |-> o.name, type |-> o.type, selected |-> b, props |-> o.props,
      size |-> o.size] : o \in ObjectTable, b \in BOOLEAN}

\* the scenes: objects of the table in any order, no object twice (names
\* in bpy.data.objects are unique), any of them selected
SceneObjects ==
    {s \in UNION {[1..k -> Selectable] : k \in 1..MaxObjs} :
        \A i, j \in DOMAIN s : i # j => s[i].name # s[j].name}

\* scene.s2_prefix, s2_name, s2_suffix, s2_add_sizes, s2_preserve_suffix
NamingConfigs ==
    [prefix : {<<Ord.p>>}, name : {<<Ord.n>>},
     suffix : {<<Ord.a>>, <<Ord.z>>, <<Ord.d9>>, <<>>},
     add_sizes : BOOLEAN, preserve_suffix : BOOLEAN]

\* obj.get("s2_" + prop, scene default)
get_obj_prop(obj, prop, scene_default) ==
    IF prop \in DOMAIN obj.props THEN obj.props[prop] ELSE scene_default

\* the suffix validated (lines 97-101)
ValidatedSuffix(obj, nm) ==
    LET suffix == get_obj_prop(obj, "suffix", nm.suffix)
    IN  IF ~isalpha(suffix) /\ ~isdigit(suffix) THEN nm.suffix ELSE suffix

\* name_parts before the suffix is appended (lines 103-108)
NameParts(obj, nm) ==
    LET base == <<get_obj_prop(obj, "prefix", nm.prefix),
                  get_obj_prop(obj, "name", nm.name)>>
    IN  IF nm.add_sizes /\ obj.size # <<>> THEN Append(base, obj.size) ELSE base

\* current_suffix before the search for a free name (lines 110-118)
StartSuffix(obj, nm) ==
    IF nm.preserve_suffix /\ obj.name # <<>> /\ HasUnderscore(obj.name)
    THEN LET original_suffix == LastSegment(obj.name)
         IN  IF isalpha(original_suffix) \/ isdigit(original_suffix)
             THEN original_suffix ELSE ValidatedSuffix(obj, nm)
    ELSE ValidatedSuffix(obj, nm)

\* while new_name in all_scene_names: the name found and the number of
\* increments made; looping when more increments were made than there are
\* names, which only a search that never ends does
RECURSIVE FreeName(_, _, _, _)
FreeName(parts, current_suffix, names, tries) ==
    LET new_name == Join(Append(parts, current_suffix))
    IN  IF new_name \notin names
        THEN [name |-> new_name, tries |-> tries, looping |-> FALSE]
        ELSE IF tries > Cardinality(names)
        THEN [name |-> new_name, tries |-> tries, looping |-> TRUE]
        ELSE FreeName(parts, increment_suffix(current_suffix), names, tries + 1)

\* all_scene_names.add(new_name)
ForgetName(names, new_name) == names
RememberName(names, new_name) == names \cup {new_name}

\* the body of the loop over selected_objects for the object at position i;
\* st holds the objects, all_scene_names and the renames made so far
ApplyOne(st, i) ==
    LET obj == st.objs[i]
        parts == NameParts(obj, naming)
        start == StartSuffix(obj, naming)
        r == FreeName(parts, start, st.names, 0)
    IN  IF ~obj.selected \/ obj.type # "MESH" THEN st
        ELSE IF r.looping
        THEN [st EXCEPT !.stuck = TRUE,
                        !.log = Append(@, [obj |-> i, old |-> obj.name,
                                           new |-> obj.name,
                                           wanted |-> Join(Append(parts, start)),
                                           others |-> {st.objs[j].name :
                                                         j \in DOMAIN st.objs \ {i}},
                                           tries |-> r.tries, looping |-> TRUE])]
        ELSE [objs |-> [st.objs EXCEPT ![i].name = r.name],
              names |-> RememberName(st.names, r.name),
              stuck |-> FALSE,
              log |-> Append(st.log, [obj |-> i, old |-> obj.name,
                                      new |-> r.name,
                                      wanted |-> Join(Append(parts, start)),
                                      others |-> {st.objs[j].name :
                                                    j \in DOMAIN st.objs \ {i}},
                                      tries |-> r.tries, looping |-> FALSE])]

\* for obj in selected_objects
RECURSIVE ApplyFrom(_, _)
ApplyFrom(st, i) ==
    IF i > Len(st.objs) \/ st.stuck THEN st
    ELSE ApplyFrom(ApplyOne(st, i), i + 1)

InitNaming ==
    /\ rng = 0
    /\ hemi = <<>>
    /\ hemiCount = 0
    /\ hemiLog = <<>>
    /\ calls = 0
    /\ scn = [local |-> {}, world |-> {}]
    /\ planes = 0
    /\ cfg = [ray_count |-> 1, blend |-> 0, ground_plane |-> FALSE,
              geonode_ao |-> FALSE]
    /\ target = "tri"
    /\ est = NoEst
    /\ prevEst = NoEst
    /\ BakeIdle
    /\ LoopIdle
    /\ objects \in SceneObjects
    /\ naming \in NamingConfigs
    /\ assigned = <<>>
    /\ ViewIdle
    /\ HandlerIdle

\* execute, lines 82-131: what the operator does to the scene and what it
\* reports
apply_naming_convention ==
    /\ calls < MaxApply
    /\ calls' = calls + 1
    /\ IF \A i \in DOMAIN objects : ~objects[i].selected
       THEN /\ reports' = Append(reports,
                   Report("ERROR", "No objects selected", "", 0, 0, 0, <<>>, 0))
            /\ result' = [NoResult EXCEPT !.ret = "set", !.flag = "CANCELLED"]
            /\ assigned' = <<>>
            /\ objects' = objects
       ELSE LET all_scene_names == {objects[i].name : i \in DOMAIN objects}
                st == ApplyFrom([objs |-> objects, names |-> all_scene_names,
                                 stuck |-> FALSE, log |-> <<>>], 1)
                nsel == Cardinality({i \in DOMAIN objects : objects[i].selected})
            IN  /\ objects' = st.objs
                /\ assigned' = st.log
                /\ IF st.stuck
                   THEN UNCHANGED <<reports, result>>
                   ELSE /\ reports' = Append(reports,
                               Report("INFO", "Applied naming convention", "", 0,
                                      nsel, nsel, <<>>, 0))
                        /\ result' = [NoResult EXCEPT !.ret = "set",
                                                      !.flag = "FINISHED"]
    /\ UNCHANGED <<rng, samplerVars, estVars, sel, pc, idx, attrs,
                   processed_count, failed_objects, loopVars, naming,
                   viewVars>>

\* the operator run from the panel or from a script
ApplyNaming ==
    /\ apply_naming_convention
    /\ UNCHANGED handlerVars

NextNaming == ApplyNaming

SpecNaming == InitNaming /\ [][NextNaming]_vars

\* C16: after apply_naming_convention, every renamed mesh object has a
\* name no other object of the scene has and no other object was given in
\* the same run, and every search for a free name ended, after at most as
\* many increments as there were names to avoid.
RenamedUnique ==
    \A k \in 1..Len(assigned) :
        LET r == assigned[k]
        IN  /\ ~r.looping
            /\ r.tries <= Len(objects) + Len(assigned)
            /\ objects[r.obj].name = r.new
            /\ \A j \in DOMAIN objects : j # r.obj => objects[j].name # r.new
            /\ \A l \in 1..Len(assigned) : l # k => assigned[l].new # r.new

\* a run that renamed two objects, the second of which first wanted the
\* name the first was given and took two or more increments to pass the
\* names in use
RenamedUniqueWitness ==
    /\ Len(assigned) = 2
    /\ assigned[2].wanted = assigned[1].new
    /\ assigned[2].tries >= 2
    /\ assigned[1].new # assigned[1].old

\* C17: with preserve_suffix set, an object whose name ends in an
\* alphabetic or numeric suffix is given the name built with that suffix
\* unless another object has that name; an object that already has the
\* name the convention builds for it keeps it.
SuffixPreserved ==
    naming.preserve_suffix =>
        \A k \in 1..Len(assigned) :
            LET r == assigned[k]
                original_suffix == LastSegment(r.old)
            IN  (/\ HasUnderscore(r.old)
                 /\ isalpha(original_suffix) \/ isdigit(original_suffix)
                 /\ r.wanted \notin r.others) =>
                    /\ r.new = r.wanted
                    /\ LastSegment(r.new) = original_suffix

\* ---------------------------------------------------------------------
\* The per-vertex loop of the hemisphere estimator
\* ---------------------------------------------------------------------
\* C18: for every vertex the samples beyond the cut are exactly the
\* samples whose dot is strictly below the vertex's min_dot; each of them
\* takes one contribution off the value and none of them is ray-tested; a
\* vertex with min_dot = 0 has no sample skipped.
EarlyCutExact ==
    (est.kind = "ok" /\ est.sampled) =>
        LET m == Mesh(target)
            h == est.hemi
        IN  \A v \in 0..(m.nverts - 1) :
               LET skipped == {k \in 1..Len(h) : h[k].dot < m.min_dot[v + 1]}
                   t == est.trace[v + 1]
               IN  /\ skipped = {k \in 1..Len(h) : k > t.cut}
                   /\ t.after_cut = cfg.ray_count - Cardinality(skipped)
                   /\ \A j \in 1..Len(est.queries) :
                          (est.queries[j].v = v /\ est.queries[j].kind # "probe")
                              => est.queries[j].k \notin skipped
                   /\ m.min_dot[v + 1] = 0 =>
                          /\ t.cut = cfg.ray_count
                          /\ t.after_cut = cfg.ray_count

\* a mesh with a vertex that has one sample skipped and one kept and
\* tested against the mesh, a vertex that has every sample skipped, and a
\* vertex with min_dot = 0
EarlyCutExactWitness ==
    /\ est.kind = "ok" /\ est.sampled
    /\ target = "bowl"
    /\ cfg.ray_count = 2
    /\ est.trace[3].cut = 1
    /\ est.trace[1].cut = 0
    /\ est.trace[4].cut = 2
    /\ \E j \in 1..Len(est.queries) :
           est.queries[j] = Query("local", 2, 1)

\* what the estimator's description gives for vertex v of mesh m from the
\* samples h: the samples kept, the local-occlusion accumulator and the
\* scene-occlusion accumulator (numerators over the ray count)
Accumulators(m, v, h, c, sc, pl) ==
    LET kept == {k \in 1..Len(h) : ~(h[k].dot < m.min_dot[v + 1])}
        local_hits == IF c.blend < BlendDen
                      THEN {k \in kept : LocalHit(sc, v, h[k], ProbeBias(m))}
                      ELSE {}
        scene_hits == {k \in kept \ local_hits :
                          SceneHit(sc, pl, v, h[k], ProbeBias(m))}
        local_occlusion == Cardinality(kept) - Cardinality(local_hits)
    IN  [kept |-> kept, local_hits |-> local_hits,
         local |-> local_occlusion,
         scene |-> local_occlusion - Cardinality(scene_hits)]

\* C19: the value of every vertex is local_occlusion * (1 - blend) +
\* scene_occlusion * blend, clamped to [0,1], blend being the configured
\* blend; it is the local occlusion at blend 0 and the scene occlusion at
\* blend 1.
BlendFormula ==
    (est.kind = "ok" /\ est.sampled) =>
        LET m == Mesh(target)
        IN  \A v \in 0..(m.nverts - 1) :
               LET a == Accumulators(m, v, est.hemi, cfg, scn, planes)
                   value == est.vert_occ[v + 1]
               IN  /\ value = Clamp01(Frac(a.local * (BlendDen - cfg.blend)
                                              + a.scene * cfg.blend,
                                           cfg.ray_count * BlendDen))
                   /\ cfg.blend = 0 => value = Clamp01(Frac(a.local, cfg.ray_count))
                   /\ cfg.blend = BlendDen =>
                          value = Clamp01(Frac(a.scene, cfg.ray_count))

\* a blend strictly between 0 and 1 and a vertex whose local and scene
\* occlusion differ, its value strictly between the two
BlendFormulaWitness ==
    /\ est.kind = "ok" /\ est.sampled
    /\ cfg.blend > 0 /\ cfg.blend < BlendDen
    /\ \E v \in 0..(Mesh(target).nverts - 1) :
          LET a == Accumulators(Mesh(target), v, est.hemi, cfg, scn, planes)
          IN  /\ a.scene < a.local
              /\ est.vert_occ[v + 1] # Frac(a.local, cfg.ray_count)
              /\ est.vert_occ[v + 1] # Frac(a.scene, cfg.ray_count)

\* the samples of vertex v that a query of the given kind was issued for
Tested(kind, v) ==
    {est.queries[j].k : j \in {i \in 1..Len(est.queries) :
                                  est.queries[i].kind = kind /\ est.queries[i].v = v}}

\* C20: sample rays are cast against the local mesh only when blend < 1
\* and against the scene only when blend > 0: none against the mesh at
\* blend 1, none against the scene at blend 0; when blend < 1 every kept
\* sample is cast against the mesh once, and when blend > 0 the scene pass
\* covers the kept samples too, each either cast against the scene once or
\* already a local hit.
PassesByBlend ==
    (est.kind = "ok" /\ est.sampled) =>
        LET m == Mesh(target)
            h == est.hemi
            count(kind, v) ==
                Cardinality({i \in 1..Len(est.queries) :
                                est.queries[i].kind = kind /\ est.queries[i].v = v})
        IN  \A v \in 0..(m.nverts - 1) :
               LET kept == {k \in 1..Len(h) : ~(h[k].dot < m.min_dot[v + 1])}
               IN  /\ cfg.blend = BlendDen => Tested("local", v) = {}
                   /\ cfg.blend = 0 => Tested("scene", v) = {}
                   /\ cfg.blend < BlendDen =>
                          /\ Tested("local", v) = kept
                          /\ count("local", v) = Cardinality(kept)
                   /\ cfg.blend > 0 =>
                          /\ Tested("scene", v) \subseteq kept
                          /\ count("scene", v) = Cardinality(Tested("scene", v))
                          /\ \A k \in kept \ Tested("scene", v) :
                                 /\ cfg.blend < BlendDen
                                 /\ LocalHit(scn, v, h[k], ProbeBias(m))

\* a blend strictly between 0 and 1, with a vertex that had a sample
\* skipped, one cast against the mesh and, a miss there, against the scene
PassesByBlendWitness ==
    /\ est.kind = "ok" /\ est.sampled
    /\ cfg.blend > 0 /\ cfg.blend < BlendDen
    /\ target = "bowl"
    /\ est.trace[3].cut = 1 /\ cfg.ray_count = 2
    /\ Tested("local", 2) = {1}
    /\ Tested("scene", 2) = {1}

\* C21: when the scene pass runs, a scene query is issued for exactly the
\* kept samples that the local pass did not flag as a hit, and the scene
\* accumulator is the local accumulator less one contribution per scene
\* hit among them.
ScenePassExact ==
    (est.kind = "ok" /\ est.sampled /\ cfg.blend > 0) =>
        LET m == Mesh(target)
            h == est.hemi
        IN  \A v \in 0..(m.nverts - 1) :
               LET a == Accumulators(m, v, h, cfg, scn, planes)
                   t == est.trace[v + 1]
                   hits == {k \in Tested("scene", v) :
                               SceneHit(scn, planes, v, h[k], ProbeBias(m))}
               IN  /\ Tested("scene", v) = a.kept \ a.local_hits
                   /\ t.local = a.local
                   /\ t.scene = t.local - Cardinality(hits)

\* a blend strictly between 0 and 1, a vertex whose kept samples were all
\* flagged by the local pass and so not cast against the scene, and a
\* vertex whose kept samples all missed the mesh and hit the scene
ScenePassExactWitness ==
    /\ est.kind = "ok" /\ est.sampled
    /\ cfg.blend > 0 /\ cfg.blend < BlendDen
    /\ cfg.ray_count = 2
    /\ \E v, w \in 0..(Mesh(target).nverts - 1) :
          /\ est.trace[v + 1].cut = 2
          /\ Tested("scene", v) = {}
          /\ est.trace[v + 1].local = 0
          /\ est.trace[w + 1].cut = 2
          /\ Tested("scene", w) = {1, 2}
          /\ est.trace[w + 1].local = 2
          /\ est.trace[w + 1].scene = 0

\* C22: a vertex for which every sample query issued, against the mesh or
\* against the scene, reported a hit has a value of at most 1/ray_count,
\* at every blend and every ray count, ray_count = 1 included.
AllBlockedZero ==
    (est.kind = "ok" /\ est.sampled) =>
        LET m == Mesh(target)
            h == est.hemi
        IN  \A v \in 0..(m.nverts - 1) :
               (/\ \A k \in Tested("local", v) : LocalHit(scn, v, h[k], ProbeBias(m))
                /\ \A k \in Tested("scene", v) :
                       SceneHit(scn, planes, v, h[k], ProbeBias(m)))
                   => est.vert_occ[v + 1][1] * cfg.ray_count <= est.vert_occ[v + 1][2]

\* one ray, a blend strictly between 0 and 1: a vertex whose only sample
\* was cast against the mesh and hit it, and another vertex whose sample
\* was cast too and whose value stayed above 0
AllBlockedZeroWitness ==
    /\ est.kind = "ok" /\ est.sampled
    /\ cfg.ray_count = 1
    /\ cfg.blend > 0 /\ cfg.blend < BlendDen
    /\ \E v, w \in 0..(Mesh(target).nverts - 1) :
          /\ Tested("local", v) = {1}
          /\ LocalHit(scn, v, est.hemi[1], ProbeBias(Mesh(target)))
          /\ est.vert_occ[v + 1] = Zero
          /\ Tested("local", w) = {1}
          /\ est.vert_occ[w + 1] # Zero

\* C23: at blend 1, a vertex whose min_dot is not positive and none of
\* whose scene queries reports a hit has the value 1, whatever the mesh
\* itself would have answered to the same rays.
GlobalOnlyOpen ==
    (est.kind = "ok" /\ est.sampled /\ cfg.blend = BlendDen) =>
        LET m == Mesh(target)
            h == est.hemi
        IN  \A v \in 0..(m.nverts - 1) :
               (/\ m.min_dot[v + 1] <= 0
                /\ \A k \in Tested("scene", v) :
                       ~SceneHit(scn, planes, v, h[k], ProbeBias(m)))
                   => est.vert_occ[v + 1] = One

\* blend 1, two rays, a vertex with a non-positive min_dot whose two
\* samples would both hit the mesh, were cast against the scene only and
\* missed there
GlobalOnlyOpenWitness ==
    /\ est.kind = "ok" /\ est.sampled
    /\ cfg.blend = BlendDen
    /\ cfg.ray_count = 2
    /\ \E v \in 0..(Mesh(target).nverts - 1) :
          /\ Mesh(target).min_dot[v + 1] <= 0
          /\ Tested("local", v) = {}
          /\ Tested("scene", v) = {1, 2}
          /\ \A k \in {1, 2} :
                /\ LocalHit(scn, v, est.hemi[k], ProbeBias(Mesh(target)))
                /\ ~SceneHit(scn, planes, v, est.hemi[k], ProbeBias(Mesh(target)))
          /\ est.vert_occ[v + 1] = One

\* the answers the probe along the vertex normal can give: a miss, a hit
\* on a face turned away, a close self-hit and a far one (distances in
\* thousandths)
Probes ==
    {[hit |-> FALSE, facing |-> FALSE, dist |-> 0],
     [hit |-> TRUE, facing |-> FALSE, dist |-> 20],
     [hit |-> TRUE, facing |-> TRUE, dist |-> 20],
     [hit |-> TRUE, facing |-> TRUE, dist |-> 600]}

\* C24: with the answers to the sample rays held fixed, the value of a
\* vertex is the same for every answer of the probe along its normal; the
\* probe decides the bias only, 0.001 plus the distance of a close
\* self-hit.
ProbeOnlyBias ==
    (est.kind = "ok" /\ est.sampled) =>
        LET m == Mesh(target)
        IN  \A v \in 0..(m.nverts - 1) : \A p \in Probes :
               LET other == VertexLoop([m EXCEPT !.probe = p], v, est.hemi,
                                       cfg, scn, planes)
               IN  /\ other.value = est.vert_occ[v + 1]
                   /\ other.queries = VertexLoop(m, v, est.hemi, cfg, scn, planes).queries
                   /\ other.bias = IF p.hit /\ p.facing /\ p.dist < 500
                                   THEN 1 + p.dist ELSE 1
                   /\ est.trace[v + 1].bias = ProbeBias(m)

\* a mesh whose probe reports a close self-hit, so that the bias is
\* extended, with a vertex whose samples were cast and whose value is
\* strictly between 0 and 1
ProbeOnlyBiasWitness ==
    /\ est.kind = "ok" /\ est.sampled
    /\ Mesh(target).probe.hit
    /\ \E v \in 0..(Mesh(target).nverts - 1) :
          /\ est.trace[v + 1].bias = 21
          /\ Tested("local", v) # {}
          /\ est.vert_occ[v + 1] # One
          /\ est.vert_occ[v + 1] # Zero

\* C25: in hemisphere mode with the ground plane on, the temporary plane
\* of an object is in the scene while the estimator runs for it, is gone
\* when the estimator has returned and the buffer is about to be written,
\* and there is never more than one temporary plane.
PlaneOnePerObject ==
    (cfg.ground_plane /\ ~UseGeonode(cfg) /\ pc # "done_single") =>
        /\ pc = "occlusion" => planes >= 1
        /\ pc = "verify" => planes = 0
        /\ planes <= 1

\* C26: when the object loop has ended, successes plus recorded failures
\* equal the number of selected mesh objects, and every selected object
\* has exactly one outcome: its attribute written, or one failure record.
OneOutcomePerObject ==
    /\ pc = "loop" => processed_count + Len(failed_objects) = idx - 1
    /\ ((pc = "loop" /\ idx > Len(sel)) \/ pc = "done") =>
          /\ processed_count + Len(failed_objects) = Len(sel)
          /\ \A k \in 1..Len(sel) :
                LET recs == {j \in 1..Len(failed_objects) :
                                failed_objects[j][1] = sel[k]}
                IN  IF attrs[sel[k]] # <<>>
                    THEN recs = {}
                    ELSE Cardinality(recs) = 1

\* the loop has ended over two objects, one baked and one recorded as
\* failed
OneOutcomePerObjectWitness ==
    /\ pc = "loop" /\ idx > Len(sel)
    /\ Len(sel) = 2
    /\ processed_count = 1
    /\ Len(failed_objects) = 1

\* C27: for every vertex the skipped samples, the samples that hit the
\* mesh and the samples that hit the scene are pairwise disjoint and each
\* sample is queried at most once per pass, so that 0 <= scene occlusion
\* <= local occlusion <= 1 and the blend of the two is not negative
\* before it is clamped.
DeductedOnce ==
    (est.kind = "ok" /\ est.sampled) =>
        LET m == Mesh(target)
            h == est.hemi
            rc == cfg.ray_count
            issued(kind, v) == {i \in 1..Len(est.queries) :
                                   est.queries[i].kind = kind /\ est.queries[i].v = v}
        IN  \A v \in 0..(m.nverts - 1) :
               LET t == est.trace[v + 1]
                   skipped == (t.cut + 1)..rc
                   local_hits == {k \in Tested("local", v) :
                                     LocalHit(scn, v, h[k], t.bias)}
                   scene_hits == {k \in Tested("scene", v) :
                                     SceneHit(scn, planes, v, h[k], t.bias)}
                   raw == BlendValues(t.local, t.scene, clamp_blend(cfg.blend), rc)
               IN  /\ Cardinality(issued("local", v)) = Cardinality(Tested("local", v))
                   /\ Cardinality(issued("scene", v)) = Cardinality(Tested("scene", v))
                   /\ skipped \cap local_hits = {}
                   /\ skipped \cap scene_hits = {}
                   /\ local_hits \cap scene_hits = {}
                   /\ t.local = rc - Cardinality(skipped) - Cardinality(local_hits)
                   /\ t.scene = t.local - Cardinality(scene_hits)
                   /\ 0 <= t.scene /\ t.scene <= t.local /\ t.local <= rc
                   /\ raw[1] >= 0
                   /\ est.vert_occ[v + 1] = raw

\* two rays and a blend strictly between 0 and 1: a vertex with one sample
\* skipped and the other hitting the scene after missing the mesh, and a
\* vertex with a sample that hit the mesh and was not cast again
DeductedOnceWitness ==
    /\ est.kind = "ok" /\ est.sampled
    /\ cfg.ray_count = 2
    /\ cfg.blend > 0 /\ cfg.blend < BlendDen
    /\ \E v, w \in 0..(Mesh(target).nverts - 1) :
          /\ est.trace[v + 1].cut = 1
          /\ Tested("local", v) = {1}
          /\ Tested("scene", v) = {1}
          /\ est.trace[v + 1].local = 1
          /\ est.trace[v + 1].scene = 0
          /\ est.vert_occ[v + 1] # Zero
          /\ 1 \in Tested("local", w)
          /\ LocalHit(scn, w, est.hemi[1], est.trace[w + 1].bias)
          /\ 1 \notin Tested("scene", w)

\* a mesh with at least one vertex whose face corners all carry a loop
\* index below the loop count
CornersInRange(m) ==
    /\ m.nverts >= 1
    /\ \A k \in 1..Len(Corners(m.faces)) :
          Corners(m.faces)[k][2] \in 0..(LoopCount(m) - 1)

\* C28: a buffer returned by either estimator for a mesh with a vertex
\* and with every corner index in range has exactly 4 x loop count
\* entries, so the size-mismatch failure is never recorded for such a
\* mesh.
BufferLengthExact ==
    /\ (pc = "verify" /\ est.kind = "ok" /\ CornersInRange(Mesh(sel[idx]))) =>
           Len(est.colors) = 4 * LoopCount(Mesh(sel[idx]))
    /\ (pc = "done_single" /\ est.kind = "ok" /\ CornersInRange(Mesh(target))) =>
           Len(est.colors) = 4 * LoopCount(Mesh(target))
    /\ \A j \in 1..Len(failed_objects) :
           failed_objects[j][2] = "Loop color array size mismatch" =>
               ~CornersInRange(Mesh(failed_objects[j][1]))
    /\ \A j \in 1..Len(reports) :
           reports[j].text = "Loop color array size mismatch" =>
               ~CornersInRange(Mesh(reports[j].obj))

\* the hemisphere estimator has returned a buffer for the six-corner mesh,
\* after the mesh with a corner index out of range was recorded with a
\* size mismatch
BufferLengthExactWitness ==
    /\ pc = "verify" /\ est.kind = "ok"
    /\ ~UseGeonode(cfg)
    /\ sel[idx] = "bowl"
    /\ Len(est.colors) = 24
    /\ \E j \in 1..Len(failed_objects) :
          /\ failed_objects[j][1] = "bad"
          /\ failed_objects[j][2] = "Loop color array size mismatch"

\* C29: when the multi-object operator has returned, every object of the
\* view layer has the selection flag it had when the operator was run and
\* the active object is the one that was active then, whatever mix of
\* objects was baked and failed.
SelectionRestored ==
    (pc = "done" /\ sel # <<>>) =>
        /\ \A o \in ViewLayer : view.selected[o] = ViewOf(sel).selected[o]
        /\ view.active = ViewOf(sel).active
        /\ saved.selection = ViewOf(sel).selected
        /\ saved.active = ViewOf(sel).active

\* the operator has returned after one object was baked under a ground
\* plane and the other failed with an exception, the active object being
\* restored to another object than the one processed last
SelectionRestoredWitness ==
    /\ pc = "done"
    /\ Len(sel) = 2
    /\ cfg.ground_plane /\ ~UseGeonode(cfg)
    /\ processed_count = 1
    /\ Len(failed_objects) = 1
    /\ failed_objects[1][2] = "ray_cast failed"
    /\ view.active = sel[1]
    /\ view.active # sel[2]
    /\ view.selected[sel[1]] /\ view.selected[sel[2]] /\ view.selected["lamp"]
    /\ ~view.selected["empty"]

\* ---------------------------------------------------------------------
\* update_names_on_selection (modules/naming.py 145-160), the handler
\* naming_register appends to depsgraph_update_post.  A frame is an
\* invocation that has passed the guard: at "operator" before
\* bpy.ops.object.apply_naming_convention() is called, at "finally" when
\* the call has returned or raised.  A dependency-graph update can arrive
\* between any two steps.
\* ---------------------------------------------------------------------
\* number of handler invocations
MaxUpdates == 3

Unguarded(flag) == FALSE
\* if _naming_update_in_progress: return
Guarded(flag) == flag

\* [obj for obj in bpy.context.selected_objects if obj.type == 'MESH']
SelectedMeshes ==
    {i \in DOMAIN objects : objects[i].selected /\ objects[i].type = "MESH"}

Invocations == Len(updates) + Len(frames)

\* what a finished invocation is remembered by: whether another one was
\* in progress when it was called, whether it returned at the guard,
\* whether it called the operator, whether the operator raised, the
\* number of objects renamed, and the flag when it returned
Update(nested, at_guard, ran, raised, renamed, flag) ==
    [nested |-> nested, at_guard |-> at_guard, ran |-> ran, raised |-> raised,
     renamed |-> renamed, flag |-> flag]

\* lines 151-152: the handler is called while the flag is set
HandlerGuarded ==
    /\ Invocations < MaxUpdates
    /\ Guarded(in_progress)
    /\ updates' = Append(updates,
           Update(frames # <<>>, TRUE, FALSE, FALSE, 0, in_progress))
    /\ UNCHANGED <<rng, samplerVars, calls, estVars, bakeVars, loopVars,
                   namingVars, viewVars, in_progress, frames>>

\* lines 153-157 and 159-160: no mesh is selected, the finally clause
\* clears the flag
HandlerNoMesh ==
    /\ Invocations < MaxUpdates
    /\ ~Guarded(in_progress)
    /\ SelectedMeshes = {}
    /\ in_progress' = FALSE
    /\ updates' = Append(updates,
           Update(frames # <<>>, FALSE, FALSE, FALSE, 0, FALSE))
    /\ UNCHANGED <<rng, samplerVars, calls, estVars, bakeVars, loopVars,
                   namingVars, viewVars, frames>>

\* lines 153-158: the flag is set and the operator is about to be called
HandlerStart ==
    /\ Invocations < MaxUpdates
    /\ calls + Len(frames) < MaxApply
    /\ ~Guarded(in_progress)
    /\ SelectedMeshes # {}
    /\ in_progress' = TRUE
    /\ frames' = Append(frames, [at |-> "operator", nested |-> frames # <<>>,
                                 raised |-> FALSE, renamed |-> 0])
    /\ UNCHANGED <<rng, samplerVars, calls, estVars, bakeVars, loopVars,
                   namingVars, viewVars, updates>>

\* line 158: the operator runs for the innermost invocation, or the call
\* raises (bpy.ops raises RuntimeError when the operator cannot run)
OperatorRun ==
    /\ frames # <<>>
    /\ frames[Len(frames)].at = "operator"
    /\ \E raises \in BOOLEAN :
          IF raises
          THEN /\ calls < MaxApply
               /\ calls' = calls + 1
               /\ frames' = [frames EXCEPT ![Len(frames)].at = "finally",
                                           ![Len(frames)].raised = TRUE]
               /\ UNCHANGED <<rng, samplerVars, estVars, bakeVars, loopVars,
                              namingVars, viewVars>>
          ELSE /\ apply_naming_convention
               /\ frames' = [frames EXCEPT ![Len(frames)].at = "finally",
                                           ![Len(frames)].renamed =
                                               Cardinality({i \in DOMAIN objects :
                                                   objects'[i].name # objects[i].name})]
    /\ UNCHANGED <<in_progress, updates>>

\* lines 159-160: the finally clause of the innermost invocation
HandlerExit ==
    /\ frames # <<>>
    /\ frames[Len(frames)].at = "finally"
    /\ in_progress' = FALSE
    /\ frames' = SubSeq(frames, 1, Len(frames) - 1)
    /\ updates' = Append(updates,
           LET f == frames[Len(frames)]
           IN  Update(f.nested, FALSE, TRUE, f.raised, f.renamed, FALSE))
    /\ UNCHANGED <<rng, samplerVars, calls, estVars, bakeVars, loopVars,
                   namingVars, viewVars>>

NextHandler ==
    \/ HandlerGuarded
    \/ HandlerNoMesh
    \/ HandlerStart
    \/ OperatorRun
    \/ HandlerExit

SpecHandler == InitNaming /\ [][NextHandler]_vars

\* C30: the handler never runs the naming operator re-entrantly: at most
\* one invocation is past the guard, an invocation called while another
\* is in progress returns at the guard without calling the operator or
\* renaming, and the flag is set exactly while an invocation is in
\* progress, so it is false after every invocation that set it, with no
\* mesh selected and with the operator raising included.
HandlerNotReentrant ==
    /\ Len(frames) <= 1
    /\ in_progress = (frames # <<>>)
    /\ \A j \in 1..Len(updates) :
          LET u == updates[j]
          IN  /\ u.nested => (u.at_guard /\ ~u.ran /\ u.renamed = 0)
              /\ ~u.at_guard => ~u.flag
              /\ u.at_guard => u.nested

\* the handler has returned from an invocation whose operator call raised
\* and from one whose operator renamed an object, an update having
\* arrived and returned at the guard after the renaming
HandlerNotReentrantWitness ==
    /\ frames = <<>>
    /\ ~in_progress
    /\ Len(updates) = 3
    /\ updates[1].ran /\ updates[1].raised /\ ~updates[1].flag
    /\ updates[2].nested /\ updates[2].at_guard /\ assigned # <<>>
    /\ updates[3].ran /\ updates[3].renamed > 0 /\ ~updates[3].flag

====
